---- MODULE Spec2Model ----
(***************************************************************************)
(* Model of the EBS volume limit calculators of src/src/lib.rs:            *)
(* calculate_gp2_limits, calculate_gp3_limits and calculate_io_limits.     *)
(* The three calculators are pure functions of u32 (and Option<u32>)       *)
(* arguments; each is an operator here, computed branch by branch as the   *)
(* source computes it.  A behaviour is one call: Init draws the callee and *)
(* its arguments, the Call action applies the callee and stores what it    *)
(* returned.                                                               *)
(***************************************************************************)
EXTENDS Integers, Sequences, FiniteSets

VARIABLES
    fn,                             \* the calculator called: "gp2", "gp3", "io"
    volume_size_gb,                 \* u32 argument (gp2, gp3)
    volume_provisioned_iops,        \* Option<u32> (gp3), Some(u32) (io)
    volume_provisioned_throughput,  \* Option<u32> (gp3)
    result,                         \* what the call returned
    pc                              \* "ready" before the call, "done" after it

vars == <<fn, volume_size_gb, volume_provisioned_iops,
          volume_provisioned_throughput, result, pc>>

----------------------------------------------------------------------------
(* Bounds of the model.                                                    *)

\* Every boundary value b of the source is explored as b-Span .. b+Span.
Span == 2

----------------------------------------------------------------------------
(* u32 arithmetic.                                                         *)

\* The largest integer the model checker holds, 2^31 - 1.  It stands for the
\* u32 values above every bound of the source (up to u32::MAX = 2^32 - 1):
\* the source treats all of them alike, by comparison with a bound.
IntMax == 2147483647

\* (2^32 - 1) div 3: 3 * x exceeds u32::MAX exactly when x exceeds this.
U32MaxDiv3 == 1431655765

\* The builds of the crate: arithmetic overflow panics with overflow checks
\* on (debug profile) and wraps modulo 2^32 with them off (release profile).
Builds == {"debug", "release"}

\* 3 * x in u32.  For U32MaxDiv3 < x <= IntMax the wrapped product
\* 3x - 2^32 is computed without leaving the checker's integers.
mul3_u32(build, x) ==
    IF x > U32MaxDiv3
    THEN [panic |-> build = "debug",
          val   |-> x - (IntMax - x) - (IntMax - x) - 2]
    ELSE [panic |-> FALSE, val |-> 3 * x]

\* a / b in u32: truncating division, a panic on a zero divisor in any build.
div_u32(a, b) ==
    IF b = 0
    THEN [panic |-> TRUE, val |-> 0]
    ELSE [panic |-> FALSE, val |-> a \div b]

min(a, b) == IF a <= b THEN a ELSE b

max(a, b) == IF a >= b THEN a ELSE b

----------------------------------------------------------------------------
(* Option<u32>, Limit and Result<Limit, Box<dyn Error>>.                   *)

None == << >>

Some(v) == << v >>

is_none(o) == o = << >>

unwrap(o) == o[1]

Limit(i, s, bi, bs) ==
    [iops |-> i, speed |-> s, burst_iops |-> bi, burst_speed |-> bs]

Ok(limit) == [kind |-> "Ok", limit |-> limit]

Err(msg) == [kind |-> "Err", msg |-> msg]

\* The call did not return: the thread panicked.
Panic(why) == [kind |-> "Panic", why |-> why]

\* Inside a calculator: an early `return Err(..)?` or the value of a block.
Return(r) == [returned |-> TRUE, result |-> r]

Value(v) == [returned |-> FALSE, val |-> v]

MsgGp2Size ==
    "Volume size for gp2 can not be less than 1GiB or greater than 16384GiB"

MsgGp3Size ==
    "Volume size for gp3 can not be less than 1GiB or greater than 16384GiB"

MsgGp3Iops ==
    "Provisioned IOPS can not be less than 3000 or greater than 16000 for Gp3 volume type.."

MsgGp3IopsRatio ==
    "Maximum ratio of 500:1 is permitted between IOPS and volume size for Gp3 volume type."

MsgGp3Throughput ==
    "Provisioned throughput can not be less than 125MiB/s or greater than 1000MiB/s for Gp3 volume type.."

MsgGp3ThroughputRatio ==
    "Maximum ratio of 0.25:1 is permitted between Throughput (MiBps) and IOPS for Gp3 volume type."

MsgIoIops ==
    "Provisioned IOPS can not be less than 100 or greater than 64000."

----------------------------------------------------------------------------
(* calculate_gp2_limits.                                                   *)

\* if (volume_size_gb < 1) || (volume_size_gb > 16384)
gp2_size_out_of_range(size) == (size < 1) \/ (size > 16384)

\* The branch volume_size_gb > 1000.
gp2_large_tier(build, size) ==
    LET max_available_iops == 16000
        max_available_throughput == 250
        calculate_iops == mul3_u32(build, size)
    IN  IF calculate_iops.panic
        THEN Panic("attempt to multiply with overflow")
        ELSE LET baseline_iops == min(calculate_iops.val, max_available_iops)
                 baseline_throughput == max_available_throughput
             IN  Ok(Limit(baseline_iops, baseline_throughput, 0, 0))

\* The branch volume_size_gb < 170 of the else branch.
gp2_small_tier(build, size, burst) ==
    LET max_available_throughput == 128
        calculate_iops == mul3_u32(build, size)
    IN  IF calculate_iops.panic
        THEN Panic("attempt to multiply with overflow")
        ELSE LET baseline_iops == max(calculate_iops.val, 100)
                 calculate_tp == baseline_iops \div 4
                 baseline_throughput == min(max_available_throughput, calculate_tp)
             IN  Ok(Limit(baseline_iops, baseline_throughput, burst,
                          max_available_throughput))

\* The else branch of volume_size_gb < 170.
gp2_middle_tier(build, size, burst) ==
    LET max_available_throughput == 250
        calculate_iops == mul3_u32(build, size)
    IN  IF calculate_iops.panic
        THEN Panic("attempt to multiply with overflow")
        ELSE LET baseline_iops == calculate_iops.val
                 calculate_tp == baseline_iops \div 4
                 baseline_throughput == min(max_available_throughput, calculate_tp)
             IN  Ok(Limit(baseline_iops, baseline_throughput, burst,
                          max_available_throughput))

\* gp2_burst_tiers with the tier test written `<= 170`.
gp2_burst_tiers_le_170(build, size) ==
    LET burst == 3000
    IN  IF size <= 170
        THEN gp2_small_tier(build, size, burst)
        ELSE gp2_middle_tier(build, size, burst)

\* The else branch of volume_size_gb > 1000.
gp2_burst_tiers(build, size) ==
    LET burst == 3000
    IN  IF size < 170
        THEN gp2_small_tier(build, size, burst)
        ELSE gp2_middle_tier(build, size, burst)

\* calculate_gp2_limits with the tier test written `> 10000`.
calculate_gp2_limits_gt_10000(build, size) ==
    IF gp2_size_out_of_range(size)
    THEN Err(MsgGp2Size)
    ELSE IF size > 10000
         THEN gp2_large_tier(build, size)
         ELSE gp2_burst_tiers(build, size)

calculate_gp2_limits(build, size) ==
    IF gp2_size_out_of_range(size)
    THEN Err(MsgGp2Size)
    ELSE IF size > 1000
         THEN gp2_large_tier(build, size)
         ELSE gp2_burst_tiers(build, size)

----------------------------------------------------------------------------
(* calculate_gp3_limits.                                                   *)

\* gp3_size_out_of_range without the lower bound.
gp3_size_out_of_range_no_lower(size) == size > 16384

\* if (volume_size_gb < 1) || (volume_size_gb > 16384)
gp3_size_out_of_range(size) == (size < 1) \/ (size > 16384)

\* gp3_iops_out_of_range with the upper bound its message names.
gp3_iops_out_of_range_16000(iops) == (iops < 3000) \/ (iops > 16000)

\* if (iops < 3000) || (iops > 64000)
gp3_iops_out_of_range(iops) == (iops < 3000) \/ (iops > 64000)

\* gp3_throughput_out_of_range with `&&` for `||`.
gp3_throughput_out_of_range_and(throughput) ==
    (throughput < 125) /\ (throughput > 1000)

\* if (throughput < 125) || (throughput > 1000)
gp3_throughput_out_of_range(throughput) ==
    (throughput < 125) \/ (throughput > 1000)

\* gp3_volume_iops with the validation applied to the default as well.
gp3_volume_iops_checks_default(size, provisioned_iops) ==
    LET iops == IF is_none(provisioned_iops)
                THEN 3000
                ELSE unwrap(provisioned_iops)
    IN  IF gp3_iops_out_of_range(iops)
        THEN Return(Err(MsgGp3Iops))
        ELSE LET ratio == div_u32(iops, size)
             IN  IF ratio.panic
                 THEN Return(Panic("attempt to divide by zero"))
                 ELSE IF ratio.val > 500
                      THEN Return(Err(MsgGp3IopsRatio))
                      ELSE Value(iops)

\* gp3_volume_iops without the IOPS-to-size ratio check.
gp3_volume_iops_no_ratio(size, provisioned_iops) ==
    IF is_none(provisioned_iops)
    THEN Value(3000)
    ELSE LET iops == unwrap(provisioned_iops)
         IN  IF gp3_iops_out_of_range(iops)
             THEN Return(Err(MsgGp3Iops))
             ELSE Value(iops)

\* let volume_iops = if volume_provisioned_iops.is_none() { .. } else { .. };
gp3_volume_iops(size, provisioned_iops) ==
    IF is_none(provisioned_iops)
    THEN Value(3000)
    ELSE LET iops == unwrap(provisioned_iops)
         IN  IF gp3_iops_out_of_range(iops)
             THEN Return(Err(MsgGp3Iops))
             ELSE LET ratio == div_u32(iops, size)
                  IN  IF ratio.panic
                      THEN Return(Panic("attempt to divide by zero"))
                      ELSE IF ratio.val > 500
                           THEN Return(Err(MsgGp3IopsRatio))
                           ELSE Value(iops)

\* gp3_volume_throughput with the ratio test written `< 3`.
gp3_volume_throughput_lt_3(volume_iops, provisioned_throughput) ==
    IF is_none(provisioned_throughput)
    THEN Value(125)
    ELSE LET throughput == unwrap(provisioned_throughput)
         IN  IF gp3_throughput_out_of_range(throughput)
             THEN Return(Err(MsgGp3Throughput))
             ELSE LET ratio == div_u32(volume_iops, throughput)
                  IN  IF ratio.panic
                      THEN Return(Panic("attempt to divide by zero"))
                      ELSE IF ratio.val < 3
                           THEN Return(Err(MsgGp3ThroughputRatio))
                           ELSE Value(throughput)

\* let volume_throughput = if volume_provisioned_throughput.is_none() { .. }
\*                         else { .. };
gp3_volume_throughput(volume_iops, provisioned_throughput) ==
    IF is_none(provisioned_throughput)
    THEN Value(125)
    ELSE LET throughput == unwrap(provisioned_throughput)
         IN  IF gp3_throughput_out_of_range(throughput)
             THEN Return(Err(MsgGp3Throughput))
             ELSE LET ratio == div_u32(volume_iops, throughput)
                  IN  IF ratio.panic
                      THEN Return(Panic("attempt to divide by zero"))
                      ELSE IF ratio.val < 4
                           THEN Return(Err(MsgGp3ThroughputRatio))
                           ELSE Value(throughput)

calculate_gp3_limits(size, provisioned_iops, provisioned_throughput) ==
    IF gp3_size_out_of_range(size)
    THEN Err(MsgGp3Size)
    ELSE LET volume_iops == gp3_volume_iops(size, provisioned_iops)
         IN  IF volume_iops.returned
             THEN volume_iops.result
             ELSE LET volume_throughput ==
                          gp3_volume_throughput(volume_iops.val,
                                                provisioned_throughput)
                  IN  IF volume_throughput.returned
                      THEN volume_throughput.result
                      ELSE Ok(Limit(volume_iops.val, volume_throughput.val, 0, 0))

----------------------------------------------------------------------------
(* calculate_io_limits.                                                    *)

\* if (volume_provisioned_iops < 100) || (volume_provisioned_iops > 64000)
io_iops_out_of_range(iops) == (iops < 100) \/ (iops > 64000)

\* The branch volume_provisioned_iops < 32000.
io_low_tier(iops) ==
    LET max_available_throughput == 500
        calculate_tp == iops \div 4
    IN  min(max_available_throughput, calculate_tp)

\* io_high_tier with the divisor of the low tier.
io_high_tier_div_4(iops) ==
    LET max_available_throughput == 1000
        calculate_tp == iops \div 4
    IN  min(max_available_throughput, calculate_tp)

\* The else branch of volume_provisioned_iops < 32000.
io_high_tier(iops) ==
    LET max_available_throughput == 1000
        calculate_tp == iops \div 64
    IN  min(max_available_throughput, calculate_tp)

calculate_io_limits(iops) ==
    IF io_iops_out_of_range(iops)
    THEN Err(MsgIoIops)
    ELSE LET baseline_throughput ==
                 IF iops < 32000 THEN io_low_tier(iops) ELSE io_high_tier(iops)
         IN  Ok(Limit(iops, baseline_throughput, 0, 0))

----------------------------------------------------------------------------
(* The arguments explored.                                                 *)

Near(b) == { v \in (b - Span)..(b + Span) : v >= 0 }

\* Stand-ins for the u32 values far above every bound of the source, on both
\* sides of the point where 3 * x leaves u32.
Huge == {U32MaxDiv3, U32MaxDiv3 + 1, IntMax}

\* gp2: every admissible size, and the sizes around the admissible interval.
Gp2Sizes == 0..(16384 + Span) \cup Huge

\* io: every admissible IOPS value, and the values around the interval.
IoIops == 0..(64000 + Span) \cup Huge

\* gp3: the values around each bound of a range check, and around the sizes
\* and IOPS values at which a ratio check changes its answer
\* (3000 div 6 = 500, 64000 div 128 = 500, 3000 div 750 = 4, 4000 div 1000 = 4).
Gp3Sizes ==
    Near(1) \cup Near(6) \cup Near(32) \cup Near(128) \cup Near(16384)
            \cup {IntMax}

Gp3Iops ==
    Near(0) \cup Near(500) \cup Near(3000) \cup Near(4000) \cup Near(16000)
            \cup Near(64000) \cup {IntMax}

Gp3Throughputs ==
    Near(0) \cup Near(125) \cup Near(750) \cup Near(1000) \cup {IntMax}

Option(S) == {None} \cup { Some(v) : v \in S }

Pending == [kind |-> "Pending"]

----------------------------------------------------------------------------
(* One call.                                                               *)

InitGp2 ==
    /\ fn = "gp2"
    /\ volume_size_gb \in Gp2Sizes
    /\ volume_provisioned_iops = None
    /\ volume_provisioned_throughput = None

InitGp3 ==
    /\ fn = "gp3"
    /\ volume_size_gb \in Gp3Sizes
    /\ volume_provisioned_iops \in Option(Gp3Iops)
    /\ volume_provisioned_throughput \in Option(Gp3Throughputs)

InitIo ==
    /\ fn = "io"
    /\ volume_size_gb = 0
    /\ volume_provisioned_iops \in { Some(v) : v \in IoIops }
    /\ volume_provisioned_throughput = None

Init ==
    /\ InitGp2 \/ InitGp3 \/ InitIo
    /\ result = Pending
    /\ pc = "ready"

Args == <<fn, volume_size_gb, volume_provisioned_iops,
          volume_provisioned_throughput>>

\* calculate_gp2_limits(volume_size_gb), in either build of the crate.
CallGp2 ==
    /\ pc = "ready"
    /\ fn = "gp2"
    /\ \E build \in Builds :
           result' = calculate_gp2_limits(build, volume_size_gb)
    /\ pc' = "done"
    /\ UNCHANGED Args

\* calculate_gp3_limits(volume_size_gb, volume_provisioned_iops,
\*                      volume_provisioned_throughput)
CallGp3 ==
    /\ pc = "ready"
    /\ fn = "gp3"
    /\ result' = calculate_gp3_limits(volume_size_gb, volume_provisioned_iops,
                                      volume_provisioned_throughput)
    /\ pc' = "done"
    /\ UNCHANGED Args

\* calculate_io_limits(volume_provisioned_iops)
CallIo ==
    /\ pc = "ready"
    /\ fn = "io"
    /\ result' = calculate_io_limits(unwrap(volume_provisioned_iops))
    /\ pc' = "done"
    /\ UNCHANGED Args

Next == CallGp2 \/ CallGp3 \/ CallIo

Spec == Init /\ [][Next]_vars

\* The states in which a call of the named calculator has ended.
Done(f) == pc = "done" /\ fn = f

Returned(f) == Done(f) /\ result.kind = "Ok"

----------------------------------------------------------------------------
(* The properties checked.                                                 *)

Provided(o) == ~ is_none(o)

ValidSize == volume_size_gb \in 1..16384

RangeMsgs == {MsgGp2Size, MsgGp3Size, MsgGp3Iops, MsgGp3Throughput, MsgIoIops}

\* The three-tier reference formula of Family-A.
C1_Reference(size) ==
    IF size > 1000
    THEN Limit(min(3 * size, 16000), 250, 0, 0)
    ELSE IF size < 170
         THEN LET iops == max(3 * size, 100)
              IN  Limit(iops, min(128, iops \div 4), 3000, 128)
         ELSE LET iops == 3 * size
              IN  Limit(iops, min(250, iops \div 4), 3000, 250)

\* C1: for every volume_size_gb in 1..16384, calculate_gp2_limits returns
\* exactly the Limit of the three-tier reference formula; sizes 170 and 1000
\* use the middle tier, size 1001 the tier above 1000.
C1_Gp2MatchesTiers ==
    Done("gp2") /\ ValidSize => result = Ok(C1_Reference(volume_size_gb))

\* Size 170 has been computed by the middle tier (burst_speed 250, not 128).
C1_Witness ==
    /\ Done("gp2")
    /\ volume_size_gb = 170
    /\ result = Ok(Limit(510, 127, 3000, 250))

\* Whether check k of Family-B, as numbered in C2, fails on the arguments.
C2_Fails(k, size, piops, ptp) ==
    LET resolved == IF Provided(piops) THEN unwrap(piops) ELSE 3000
    IN  CASE k = 1 -> size \notin 1..16384
          [] k = 2 -> Provided(piops) /\ unwrap(piops) \notin 3000..64000
          [] k = 3 -> /\ Provided(piops)
                      /\ size > 0
                      /\ unwrap(piops) \div size > 500
          [] k = 4 -> Provided(ptp) /\ unwrap(ptp) \notin 125..1000
          [] k = 5 -> /\ Provided(ptp)
                      /\ unwrap(ptp) > 0
                      /\ resolved \div unwrap(ptp) < 4

C2_Message(k) ==
    CASE k = 1 -> MsgGp3Size
      [] k = 2 -> MsgGp3Iops
      [] k = 3 -> MsgGp3IopsRatio
      [] k = 4 -> MsgGp3Throughput
      [] k = 5 -> MsgGp3ThroughputRatio

\* What Family-B returns according to C2: the error of the first failing
\* check, or the resolved values when no check fails.
C2_Reference(size, piops, ptp) ==
    LET failing == { k \in 1..5 : C2_Fails(k, size, piops, ptp) }
    IN  IF failing # {}
        THEN Err(C2_Message(CHOOSE k \in failing : \A j \in failing : k <= j))
        ELSE Ok(Limit(IF Provided(piops) THEN unwrap(piops) ELSE 3000,
                      IF Provided(ptp) THEN unwrap(ptp) ELSE 125, 0, 0))

C3_Reference(iops) ==
    Limit(iops,
          IF iops < 32000 THEN min(500, iops \div 4) ELSE min(1000, iops \div 64),
          0, 0)

\* C3: for every provisioned_iops in 100..64000, calculate_io_limits returns
\* exactly Limit{iops, s, 0, 0} with s = min(500, iops div 4) below 32000 and
\* s = min(1000, iops div 64) from 32000 on.
C3_IoMatchesTiers ==
    Done("io") /\ unwrap(volume_provisioned_iops) \in 100..64000 =>
        result = Ok(C3_Reference(unwrap(volume_provisioned_iops)))

\* 31999 has been computed by the div-4 tier (div 64 would give 499).
C3_Witness ==
    /\ Done("io")
    /\ volume_provisioned_iops = Some(31999)
    /\ result = Ok(Limit(31999, 500, 0, 0))

\* C5: for every volume_size_gb in 1..16384, calculate_gp3_limits(size, None,
\* None) returns exactly Limit{3000, 125, 0, 0}, whatever the size.
C5_Gp3Defaults ==
    /\ Done("gp3")
    /\ ValidSize
    /\ volume_provisioned_iops = None
    /\ volume_provisioned_throughput = None
    => result = Ok(Limit(3000, 125, 0, 0))

\* The defaults have been returned for size 1, where 3000 div 1 exceeds 500.
C5_Witness ==
    /\ Done("gp3")
    /\ volume_size_gb = 1
    /\ volume_provisioned_iops = None
    /\ volume_provisioned_throughput = None
    /\ result = Ok(Limit(3000, 125, 0, 0))

\* Some supplied argument of the call lies outside its admissible interval.
C4_OutOfInterval ==
    \/ fn = "gp2" /\ ~ ValidSize
    \/ /\ fn = "gp3"
       /\ \/ ~ ValidSize
          \/ /\ Provided(volume_provisioned_iops)
             /\ unwrap(volume_provisioned_iops) \notin 3000..64000
          \/ /\ Provided(volume_provisioned_throughput)
             /\ unwrap(volume_provisioned_throughput) \notin 125..1000
    \/ fn = "io" /\ unwrap(volume_provisioned_iops) \notin 100..64000

\* Family-B with a valid size and a provided, in-range IOPS value whose
\* integer ratio to the size exceeds 500.
C4_IopsRatioExceeded ==
    /\ fn = "gp3"
    /\ ValidSize
    /\ Provided(volume_provisioned_iops)
    /\ unwrap(volume_provisioned_iops) \in 3000..64000
    /\ unwrap(volume_provisioned_iops) \div volume_size_gb > 500

\* C4 as stated: whenever any supplied input lies outside its interval, the
\* call returns a range-kind error, never a ratio-kind error or a Limit,
\* whatever the other arguments are.
C4_Original ==
    pc = "done" /\ C4_OutOfInterval =>
        result.kind = "Err" /\ result.msg \in RangeMsgs

\* C4 (amended): whenever any supplied input lies outside its interval, the
\* call returns an error and never a Limit; the error is range-kind, except
\* in Family-B when the size is valid and a provided in-range IOPS value has
\* iops div size > 500: then an out-of-range throughput is never examined and
\* the call returns the IOPS-to-size ratio error.
C4_OutOfRangeFails ==
    pc = "done" /\ C4_OutOfInterval =>
        /\ result.kind = "Err"
        /\ IF C4_IopsRatioExceeded
           THEN result.msg = MsgGp3IopsRatio
           ELSE result.msg \in RangeMsgs

\* An out-of-range throughput has been answered with the ratio error.
C4_Witness ==
    /\ Done("gp3")
    /\ volume_size_gb = 1
    /\ volume_provisioned_iops = Some(3000)
    /\ volume_provisioned_throughput = Some(1001)
    /\ result = Err(MsgGp3IopsRatio)

\* C6 as stated: every call of calculate_gp3_limits with a provided IOPS
\* value such that iops div volume_size_gb > 500 fails with the IOPS-to-size
\* ratio error, regardless of the throughput argument.
C6_Original ==
    /\ Done("gp3")
    /\ Provided(volume_provisioned_iops)
    /\ volume_size_gb > 0
    /\ unwrap(volume_provisioned_iops) \div volume_size_gb > 500
    => result = Err(MsgGp3IopsRatio)

\* C6 (amended): every call of calculate_gp3_limits with a size in 1..16384
\* and a provided IOPS value in 3000..64000 such that
\* iops div volume_size_gb > 500 fails with the IOPS-to-size ratio error,
\* regardless of the throughput argument (absent, in range or out of range).
C6_RatioRegardlessOfThroughput ==
    pc = "done" /\ C4_IopsRatioExceeded => result = Err(MsgGp3IopsRatio)

\* The ratio error has been returned although the throughput is 0.
C6_Witness ==
    /\ Done("gp3")
    /\ volume_size_gb = 5
    /\ volume_provisioned_iops = Some(3001)
    /\ volume_provisioned_throughput = Some(0)
    /\ result = Err(MsgGp3IopsRatio)

\* C7: no calculator panics: every call ends by returning a Limit or an
\* error value, for every argument; no division meets a zero divisor and
\* 3 * volume_size_gb never leaves u32 (either would end the call of the
\* build with overflow checks in a panic).
C7_NoPanic ==
    pc = "done" =>
        /\ result.kind \in {"Ok", "Err"}
        /\ Returned("gp2") => volume_size_gb <= U32MaxDiv3

\* Size 0 with a provided IOPS value: the division by the size was not
\* reached.
C7_Witness ==
    /\ Done("gp3")
    /\ volume_size_gb = 0
    /\ volume_provisioned_iops = Some(3000)
    /\ result = Err(MsgGp3Size)

\* Every Limit returned by Family-B satisfies 4 * speed <= iops.
C8_ThroughputQuarter ==
    Returned("gp3") => 4 * result.limit.speed <= result.limit.iops

\* C8 as stated: every Limit returned by calculate_gp3_limits satisfies
\* 4 * speed <= iops; in particular, with IOPS absent a provided throughput
\* above 750 is rejected with the IOPS-to-throughput ratio error (read here
\* for calls with a valid size only).
C8_Original ==
    /\ C8_ThroughputQuarter
    /\  /\ Done("gp3")
        /\ ValidSize
        /\ volume_provisioned_iops = None
        /\ Provided(volume_provisioned_throughput)
        /\ unwrap(volume_provisioned_throughput) > 750
        => result = Err(MsgGp3ThroughputRatio)

\* C8 (amended): every Limit returned by calculate_gp3_limits satisfies
\* 4 * speed <= iops; in particular, with a valid size and IOPS absent
\* (resolved to 3000) a provided throughput in 751..1000 is rejected with the
\* IOPS-to-throughput ratio error (above 1000 it is rejected as out of
\* range).
C8_ThroughputAtMostQuarterOfIops ==
    /\ C8_ThroughputQuarter
    /\  /\ Done("gp3")
        /\ ValidSize
        /\ volume_provisioned_iops = None
        /\ Provided(volume_provisioned_throughput)
        => /\ unwrap(volume_provisioned_throughput) \in 751..1000
              => result = Err(MsgGp3ThroughputRatio)
           /\ unwrap(volume_provisioned_throughput) > 1000
              => result = Err(MsgGp3Throughput)

\* The largest throughput the default IOPS admit has been accepted.
C8_Witness ==
    /\ Done("gp3")
    /\ volume_provisioned_iops = None
    /\ volume_provisioned_throughput = Some(750)
    /\ result = Ok(Limit(3000, 750, 0, 0))

\* C9: every call of calculate_gp3_limits with a provided IOPS value that
\* returns a Limit satisfies iops <= 500 * volume_size_gb.
C9_IopsAtMost500PerGiB ==
    Returned("gp3") /\ Provided(volume_provisioned_iops) =>
        result.limit.iops <= 500 * volume_size_gb

\* C10: for every Limit returned by calculate_gp2_limits the burst fields are
\* both zero or both non-zero, both zero exactly when volume_size_gb > 1000;
\* when they are non-zero, iops <= burst_iops and speed <= burst_speed; and
\* speed >= 25.
C10_Gp2Burst ==
    Returned("gp2") =>
        LET l == result.limit
        IN  /\ (l.burst_iops = 0) <=> (l.burst_speed = 0)
            /\ (l.burst_iops = 0 /\ l.burst_speed = 0) <=> (volume_size_gb > 1000)
            /\ l.burst_iops # 0 => l.iops <= l.burst_iops /\ l.speed <= l.burst_speed
            /\ l.speed >= 25

\* Size 1000: the baseline has reached the burst ceiling without passing it.
C10_Witness ==
    /\ Done("gp2")
    /\ volume_size_gb = 1000
    /\ result = Ok(Limit(3000, 250, 3000, 250))

====
